---- MODULE Spec2Model ----
(***************************************************************************)
(* Model of mdBook's src/utils/mod.rs: the anchor id generator             *)
(* (unique_id_from_content), the link resolver (adjust_links) and the      *)
(* footnote collator of render_markdown_with_path_and_redirects.           *)
(*                                                                         *)
(* A Rust string is a sequence of one-character strings, so that every     *)
(* formatting, escaping and regular-expression step is computed character  *)
(* by character as the code computes it.                                   *)
(***************************************************************************)
EXTENDS Integers, Sequences, FiniteSets, TLC

VARIABLES
    id_counter,        \* unique_id_from_content: the caller's HashMap<String, usize>
    id_contents,       \* the heading texts passed with this counter, in call order
    id_results,        \* the ids returned with this counter, in call order
    path,              \* render: Option<&Path>, None in standalone mode
    redirects,         \* render: the redirect table, a set of <<original, redirect>>
    stream,            \* render: the parser events consumed so far
    open,              \* parser: is a footnote definition open in the stream
    piped,             \* render: per consumed event, what the closure made of it
    footnote_numbers,  \* render: name -> <<number, count>>
    footnote_defs,     \* render: name -> Vec<Event>
    in_footnote_name,  \* render: name of the definition being collected
    in_footnote,       \* render: events of the definition being collected
    body,              \* render: what was pushed to the output, in order
    warnings,          \* render: log::warn! records, in order
    pc,                \* render: "events" while the stream runs, then "done"
    returned           \* the render calls that returned before this one, in order

idvars == <<id_counter, id_contents, id_results>>
rendervars == <<path, redirects, stream, open, piped, footnote_numbers,
                footnote_defs, in_footnote_name, in_footnote, body, warnings, pc,
                returned>>
vars == <<id_counter, id_contents, id_results, path, redirects, stream, open,
          piped, footnote_numbers, footnote_defs, in_footnote_name, in_footnote,
          body, warnings, pc, returned>>

-----------------------------------------------------------------------------
(* Bounds of the model.                                                    *)

MaxCalls == 4
MaxEvents == 6
MaxRefs == 3
MaxDefs == 2
MaxOther == 1
MaxLinks == 1
MaxTableEvents == 6
MaxTables == 1
MaxRenders == 2

-----------------------------------------------------------------------------
(* Strings: std::str operations on sequences of characters.                *)

Lowers == {"a","b","c","d","e","f","g","h","i","j","k","l","m",
           "n","o","p","q","r","s","t","u","v","w","x","y","z"}
Uppers == {"A","B","C","D","E","F","G","H","I","J","K","L","M",
           "N","O","P","Q","R","S","T","U","V","W","X","Y","Z"}
Digits == {"0","1","2","3","4","5","6","7","8","9"}
Whitespace == {" ", "\t", "\n"}

\* char::to_ascii_lowercase
to_ascii_lowercase(ch) ==
    CASE ch = "A" -> "a" [] ch = "B" -> "b" [] ch = "C" -> "c" [] ch = "D" -> "d"
      [] ch = "E" -> "e" [] ch = "F" -> "f" [] ch = "G" -> "g" [] ch = "H" -> "h"
      [] ch = "I" -> "i" [] ch = "J" -> "j" [] ch = "K" -> "k" [] ch = "L" -> "l"
      [] ch = "M" -> "m" [] ch = "N" -> "n" [] ch = "O" -> "o" [] ch = "P" -> "p"
      [] ch = "Q" -> "q" [] ch = "R" -> "r" [] ch = "S" -> "s" [] ch = "T" -> "t"
      [] ch = "U" -> "u" [] ch = "V" -> "v" [] ch = "W" -> "w" [] ch = "X" -> "x"
      [] ch = "Y" -> "y" [] ch = "Z" -> "z" [] OTHER -> ch

\* str::to_ascii_lowercase
str_to_ascii_lowercase(s) == [i \in 1..Len(s) |-> to_ascii_lowercase(s[i])]

\* does pat occur in s at position i
MatchAt(s, i, pat) ==
    /\ i >= 1
    /\ i + Len(pat) - 1 <= Len(s)
    /\ SubSeq(s, i, i + Len(pat) - 1) = pat

starts_with(s, pat) == MatchAt(s, 1, pat)
ends_with(s, pat) == MatchAt(s, Len(s) - Len(pat) + 1, pat)
contains(s, pat) == \E i \in 1..Len(s) : MatchAt(s, i, pat)

\* str::replace: every non-overlapping occurrence, left to right
RECURSIVE replace(_, _, _)
replace(s, pat, to) ==
    IF s = <<>> THEN <<>>
    ELSE IF MatchAt(s, 1, pat)
         THEN to \o replace(SubSeq(s, Len(pat) + 1, Len(s)), pat, to)
         ELSE <<s[1]>> \o replace(Tail(s), pat, to)

RECURSIVE trim_start_matches(_, _)
trim_start_matches(s, chars) ==
    IF s # <<>> /\ s[1] \in chars THEN trim_start_matches(Tail(s), chars) ELSE s

RECURSIVE trim_end_matches(_, _)
trim_end_matches(s, chars) ==
    IF s # <<>> /\ s[Len(s)] \in chars
    THEN trim_end_matches(SubSeq(s, 1, Len(s) - 1), chars) ELSE s

\* str::trim
trim(s) == trim_end_matches(trim_start_matches(s, Whitespace), Whitespace)

\* Display of an unsigned integer: its decimal digits
DigitChar(d) ==
    CASE d = 0 -> "0" [] d = 1 -> "1" [] d = 2 -> "2" [] d = 3 -> "3" [] d = 4 -> "4"
      [] d = 5 -> "5" [] d = 6 -> "6" [] d = 7 -> "7" [] d = 8 -> "8" [] OTHER -> "9"

RECURSIVE to_string(_)
to_string(n) ==
    IF n < 10 THEN <<DigitChar(n)>> ELSE to_string(n \div 10) \o <<DigitChar(n % 10)>>

\* the least member of a set of integers
Min(S) == CHOOSE i \in S : \A j \in S : i <= j

\* the greatest member of a set of integers
Max(S) == CHOOSE i \in S : \A j \in S : j <= i

\* the sequences of the members of a finite set, each once: a traversal order
Orders(S) ==
    {f \in [1..Cardinality(S) -> S] : \A i, j \in 1..Cardinality(S) : f[i] = f[j] => i = j}

-----------------------------------------------------------------------------
(* Anchor ID Generator.                                                    *)

\* normalize_id: the filter_map over the characters
RECURSIVE normalize_id(_)
normalize_id(content) ==
    IF content = <<>> THEN <<>>
    ELSE LET ch == content[1]
             rest == normalize_id(Tail(content))
         IN  IF ch \in Lowers \cup Uppers \cup Digits \/ ch = "_" \/ ch = "-"
             THEN <<to_ascii_lowercase(ch)>> \o rest
             ELSE IF ch \in Whitespace THEN <<"-">> \o rest
             ELSE rest

\* the first i > from with s[i] = ">" and no line break before it, 0 if none:
\* where the lazy `.*?>` of the HTML regex stops
RECURSIVE TagEnd(_, _)
TagEnd(s, from) ==
    IF from > Len(s) \/ s[from] = "\n" THEN 0
    ELSE IF s[from] = ">" THEN from
    ELSE TagEnd(s, from + 1)

\* HTML.replace_all(content, "") for the regex (<.*?>)
RECURSIVE strip_tags(_)
strip_tags(s) ==
    IF s = <<>> THEN <<>>
    ELSE IF s[1] = "<" /\ TagEnd(s, 2) # 0
         THEN strip_tags(SubSeq(s, TagEnd(s, 2) + 1, Len(s)))
         ELSE <<s[1]>> \o strip_tags(Tail(s))

\* REPL_SUB, in the order the loop removes them
REPL_SUB == << <<"&","l","t",";">>, <<"&","g","t",";">>, <<"&","a","m","p",";">>,
               <<"&","#","3","9",";">>, <<"&","q","u","o","t",";">> >>

RECURSIVE remove_subs(_, _)
remove_subs(content, i) ==
    IF i > Len(REPL_SUB) THEN content
    ELSE remove_subs(replace(content, REPL_SUB[i], <<>>), i + 1)

id_from_content(content) ==
    LET stripped == remove_subs(strip_tags(content), 1)
        trimmed  == trim(trim_start_matches(trim(stripped), {"#"}))
    IN  normalize_id(trimmed)

\* a plausible slip: the suffix is appended on the first occurrence too
format_unique_id_always(id, id_count) == id \o <<"-">> \o to_string(id_count)

\* the match on *id_count in unique_id_from_content
format_unique_id(id, id_count) ==
    IF id_count = 0 THEN id ELSE id \o <<"-">> \o to_string(id_count)

\* id_counter.entry(id).or_insert(0)
CountOf(counter, id) == IF id \in DOMAIN counter THEN counter[id] ELSE 0

\* the heading texts the callers pass
Contents == { <<"a">>, <<"#","#"," ","a">>, <<"a","-","1">>, <<"a"," ","1">>,
              <<"<","i",">","A","&","l","t",";","<","/","i",">">>, <<"b">> }

unique_id_from_content(content) ==
    /\ Len(id_contents) < MaxCalls
    /\ LET id == id_from_content(content)
           id_count == CountOf(id_counter, id)
       IN  /\ id_results' = Append(id_results, format_unique_id(id, id_count))
           /\ id_counter' = [k \in DOMAIN id_counter \cup {id} |->
                                IF k = id THEN id_count + 1 ELSE id_counter[k]]
    /\ id_contents' = Append(id_contents, content)
    /\ UNCHANGED rendervars

\* the caller starts over with `&mut Default::default()`
new_id_counter ==
    /\ id_contents # <<>>
    /\ id_counter' = <<>>
    /\ id_contents' = <<>>
    /\ id_results' = <<>>
    /\ UNCHANGED rendervars

-----------------------------------------------------------------------------
(* Paths: std::path on a Unix build, and the helpers built on it.          *)

\* the value a panicking call leaves instead of a string
Panic == <<"panic!">>

\* Option::None of an optional string
None == <<"None">>

\* s.split('/'): the segments between the slashes, empty ones included
RECURSIVE split(_, _)
split(s, sep) ==
    IF \A i \in 1..Len(s) : s[i] # sep THEN <<s>>
    ELSE LET i == CHOOSE k \in 1..Len(s) :
                      s[k] = sep /\ \A j \in 1..(k - 1) : s[j] # sep
         IN  <<SubSeq(s, 1, i - 1)>> \o split(SubSeq(s, i + 1, Len(s)), sep)

RECURSIVE join(_, _)
join(segs, sep) ==
    IF segs = <<>> THEN <<>>
    ELSE IF Len(segs) = 1 THEN segs[1]
    ELSE segs[1] \o sep \o join(Tail(segs), sep)

\* Path::components without the root: empty and `.` segments are skipped
components(s) ==
    SelectSeq(split(s, "/"), LAMBDA seg : seg # <<>> /\ seg # <<".">>)

has_root(s) == starts_with(s, <<"/">>)

\* the path a PathBuf of these components prints as
path_str(root, comps) == (IF root THEN <<"/">> ELSE <<>>) \o join(comps, <<"/">>)

\* Path::parent as a string, None when the path has no last component
parent(s) ==
    LET comps == components(s)
    IN  IF comps = <<>> THEN None
        ELSE path_str(has_root(s), SubSeq(comps, 1, Len(comps) - 1))

\* the loop of normalize_path over the components: `..` pops, or is pushed when
\* there is nothing to pop (Path::parent of `..` is the empty path, so a pushed
\* `..` is popped by the next `..`)
RECURSIVE normalize_components(_, _)
normalize_components(comps, normalized) ==
    IF comps = <<>> THEN normalized
    ELSE IF comps[1] = <<".", ".">>
         THEN normalize_components(Tail(comps),
                  IF normalized # <<>>
                  THEN SubSeq(normalized, 1, Len(normalized) - 1)
                  ELSE Append(normalized, comps[1]))
         ELSE normalize_components(Tail(comps), Append(normalized, comps[1]))

\* the end of normalize_path: the trailing slash, the slash direction and the
\* leading slashes
finish_path(p, normalized) ==
    trim_start_matches(
        replace(IF ends_with(p, <<"/">>) /\ normalized # <<>>
                   /\ ~ends_with(normalized, <<"/">>)
                THEN normalized \o <<"/">> ELSE normalized,
                <<"\\">>, <<"/">>),
        {"/"})

normalize_path(p) ==
    finish_path(p, path_str(has_root(p), normalize_components(components(p), <<>>)))

\* the truncation at the end of normalize_print_page_id
truncate_html(replaced) ==
    IF ends_with(replaced, <<".","h","t","m","l">>)
    THEN SubSeq(replaced, 1, Len(replaced) - 5)
    ELSE replaced

normalize_print_page_id(p) ==
    truncate_html(str_to_ascii_lowercase(
        replace(replace(replace(p, <<"/">>, <<"-">>),
                        <<".","h","t","m","l","#">>, <<"-">>),
                <<"#">>, <<"-">>)))

\* `base` of a page path: the display string without a trailing .md
strip_md(p) == IF ends_with(p, <<".","m","d">>) THEN SubSeq(p, 1, Len(p) - 3) ELSE p

\* the page id of the current page, as fix_a_links, fix_html and add_footnote_defs
\* compute it
page_id(p) == normalize_print_page_id(normalize_path(strip_md(p)))

-----------------------------------------------------------------------------
(* Events of the pulldown-cmark stream, and the HTML fragments the code    *)
(* makes. An HTML fragment is kept as the element it holds and the         *)
(* attribute values formatted into it.                                     *)

Event(ev, tag, name) ==
    [ev |-> ev, tag |-> tag, link_type |-> "", name |-> name,
     dest |-> <<>>, id |-> <<>>, text |-> <<>>]

Text(t) == Event("Text", "", t)
Start(tag) == Event("Start", tag, <<>>)
End(tag) == Event("End", tag, <<>>)
StartFootnoteDefinition(name) == Event("Start", "FootnoteDefinition", name)
FootnoteReference(name) == Event("FootnoteReference", "", name)
StartCodeBlock(info) == Event("Start", "CodeBlock", info)
StartLink(link_type, dest) ==
    [Event("Start", "Link", <<>>) EXCEPT !.link_type = link_type, !.dest = dest]
StartImage(dest) == [Event("Start", "Image", <<>>) EXCEPT !.dest = dest]
\* a raw fragment holding <a href="dest">, <img src="dest"> or <a name="name">
HtmlA(dest) == [Event("Html", "a", <<>>) EXCEPT !.dest = dest]
HtmlImg(dest) == [Event("Html", "img", <<>>) EXCEPT !.dest = dest]
HtmlAName(name) == Event("Html", "a-name", name)

-----------------------------------------------------------------------------
(* Link & Resource Resolver: adjust_links.                                 *)

\* a plausible slip: nothing is taken for a scheme
SCHEME_LINK_never(s) == FALSE

\* SCHEME_LINK.is_match: ^[a-z][a-z0-9+.-]*:
SCHEME_LINK(s) ==
    \E k \in 2..Len(s) :
        /\ s[k] = ":"
        /\ s[1] \in Lowers
        /\ \A i \in 2..(k - 1) : s[i] \in Lowers \cup Digits \cup {"+", ".", "-"}

\* the length of the extension `\.(html|md)` matching at i, 0 if none does
ExtAt(s, i) ==
    IF MatchAt(s, i, <<".","h","t","m","l">>) THEN 5
    ELSE IF MatchAt(s, i, <<".","m","d">>) THEN 3
    ELSE 0

\* the captures of a match whose extension is at i and ends before `after`
captures(s, i, after) ==
    [matched |-> TRUE,
     link |-> SubSeq(s, 1, i - 1),
     anchor |-> IF after <= Len(s) /\ s[after] = "#"
                THEN SubSeq(s, after, Len(s)) ELSE <<>>]

\* the greedy `link` ends at the last of the positions `at` where an
\* extension matches
captures_last(s, at) ==
    IF at = {} THEN [matched |-> FALSE, link |-> <<>>, anchor |-> <<>>]
    ELSE captures(s, Max(at), Max(at) + ExtAt(s, Max(at)))

\* HTML_MD_LINK.captures for (?P<link>.*)\.(html|md)(?P<anchor>#.*)? :
\* `anchor` is the rest only when a `#` follows the last extension directly
HTML_MD_LINK(s) == captures_last(s, {i \in 1..Len(s) : ExtAt(s, i) # 0})

\* the end of add_base, on the parent of the path
base_prefix(base) ==
    IF base = None THEN Panic
    ELSE IF base # <<>> THEN base \o <<"/">> ELSE <<>>

add_base(p) == IF p = None THEN <<>> ELSE base_prefix(parent(p))

\* str::eq_ignore_ascii_case
eq_ignore_ascii_case(a, b) == str_to_ascii_lowercase(a) = str_to_ascii_lowercase(b)

\* split_once('#')
path_no_fragment_of(s) ==
    IF contains(s, <<"#">>) THEN split(s, "#")[1] ELSE s

fragment_of(s) ==
    IF contains(s, <<"#">>)
    THEN SubSeq(s, Len(split(s, "#")[1]) + 2, Len(s)) ELSE None

\* the test at the head of the loop over the redirects
redirect_matches(original, normalized_path) ==
    LET o == normalize_path(trim_start_matches(original, {"/"}))
    IN  \/ eq_ignore_ascii_case(o, normalized_path)
        \/ eq_ignore_ascii_case(o, path_no_fragment_of(normalized_path))

\* the redirect under the directory of the link
join_base(redirect, normalized_base) ==
    IF normalized_base # <<>>
    THEN normalized_base \o <<"/">> \o redirect
    ELSE trim_start_matches(redirect, {"/"})

unnormalized_path_of(redirect, base) ==
    IF SCHEME_LINK(redirect) THEN redirect
    ELSE join_base(redirect,
                   trim_end_matches(
                       trim_start_matches(normalize_path(base), {"/"}), {"/"}))

\* original without anchors, need to append link anchors
append_fragment(original, fragment, unnormalized_path) ==
    IF ~contains(original, <<"#">>) /\ fragment # None
    THEN unnormalized_path
         \o (IF ~contains(unnormalized_path, <<"#">>) THEN <<"#">> ELSE <<"-">>)
         \o fragment
    ELSE unnormalized_path

\* what the loop leaves: the value it returns for a scheme, else the new
\* normalized_path
redirect_result(redirect, unnormalized_path) ==
    [panic |-> FALSE,
     scheme |-> SCHEME_LINK(redirect),
     path |-> IF SCHEME_LINK(redirect) THEN unnormalized_path
              ELSE normalize_path(unnormalized_path)]

redirect_from(original, redirect, fragment, base) ==
    IF ~SCHEME_LINK(redirect) /\ base = None
    THEN [panic |-> TRUE, scheme |-> FALSE, path |-> <<>>]
    ELSE redirect_result(redirect,
             append_fragment(original, fragment, unnormalized_path_of(redirect, base)))

\* the body of the loop for the entry that matches
apply_redirect(original, redirect, normalized_path) ==
    redirect_from(original, redirect, fragment_of(normalized_path),
                  parent(path_no_fragment_of(normalized_path)))

\* the loop over the redirects: the first entry of `order` that matches is
\* applied, and the loop ends
first_redirect(normalized_path, order, hits) ==
    IF hits = {}
    THEN [panic |-> FALSE, scheme |-> FALSE, path |-> normalized_path]
    ELSE apply_redirect(order[Min(hits)][1], order[Min(hits)][2], normalized_path)

\* the end of fix_print_page_link, after the loop
print_page_anchor(applied) ==
    IF applied.panic THEN Panic
    ELSE IF applied.scheme THEN applied.path
    ELSE IF starts_with(applied.path, <<".",".","/">>)
            \/ contains(applied.path, <<"/",".",".","/">>)
         THEN applied.path
    ELSE <<"#">> \o normalize_print_page_id(applied.path)

\* `order` is the order in which the HashMap hands out the redirects
fix_print_page_link(normalized_path, order) ==
    print_page_anchor(
        first_redirect(normalized_path, order,
            {i \in 1..Len(order) : redirect_matches(order[i][1], normalized_path)}))

\* the end of fix_resource_links, on the base of the page
push_dest(base, dest) == IF base = Panic THEN Panic ELSE base \o dest

fix_resource_links(dest, p) ==
    IF SCHEME_LINK(dest) \/ starts_with(dest, <<"/">>) THEN dest
    ELSE push_dest(add_base(p), dest)

\* the link with its extension fixed, or the link as it is
push_link(dest, caps) ==
    IF caps.matched THEN caps.link \o <<".","h","t","m","l">> \o caps.anchor ELSE dest

\* a plausible slip: the link with its extension fixed is returned in both modes
judge_link_fixed(p, order, fixed_link, normalized_path) == fixed_link

\* a plausible slip: standalone mode returns the normalized path
judge_link_normalized(p, order, fixed_link, normalized_path) ==
    IF ~starts_with(normalized_path, <<".",".","/">>)
       /\ ~contains(normalized_path, <<"/",".",".","/">>)
    THEN IF p = None THEN normalized_path
         ELSE fix_print_page_link(normalized_path, order)
    ELSE fixed_link

\* Judge if the html link is inside the book
judge_link(p, order, fixed_link, normalized_path) ==
    IF ~starts_with(normalized_path, <<".",".","/">>)
       /\ ~contains(normalized_path, <<"/",".",".","/">>)
    THEN IF p = None THEN fixed_link
         ELSE fix_print_page_link(normalized_path, order)
    ELSE fixed_link

\* fix_a_links from `let mut fixed_link` on, given what add_base returned
fix_relative(dest, p, order, base) ==
    IF base = Panic THEN Panic
    ELSE judge_link(p, order, base \o push_link(dest, HTML_MD_LINK(dest)),
                    normalize_path(base \o push_link(dest, HTML_MD_LINK(dest))))

\* a plausible slip: a fragment-only link is returned as it is in both modes
fix_a_links_fragment_kept(dest, p, order) ==
    IF starts_with(dest, <<"#">>) \/ SCHEME_LINK(dest) THEN dest
    ELSE fix_relative(dest, p, order,
                      IF starts_with(dest, <<"/">>) THEN <<>> ELSE add_base(p))

fix_a_links(dest, p, order) ==
    IF starts_with(dest, <<"#">>)
    THEN IF p = None THEN dest
         ELSE <<"#">> \o page_id(p) \o replace(dest, <<"#">>, <<"-">>)
    ELSE IF SCHEME_LINK(dest) THEN dest
    ELSE fix_relative(dest, p, order,
                      IF starts_with(dest, <<"/">>) THEN <<>> ELSE add_base(p))

fix_a_links_with_type(dest, p, order, link_type) ==
    IF link_type = "Email" THEN dest ELSE fix_a_links(dest, p, order)

\* fix_html on a fragment holding one of the three attributes it scans for
fix_html(event, p, order) ==
    CASE event.tag = "img" -> [event EXCEPT !.dest = fix_resource_links(event.dest, p)]
      [] event.tag = "a-name" ->
            [event EXCEPT !.name = IF p = None THEN event.name
                                   ELSE page_id(p) \o <<"-">> \o event.name]
      [] event.tag = "a" -> [event EXCEPT !.dest = fix_a_links(event.dest, p, order)]
      [] OTHER -> event

adjust_links(event, p, order) ==
    CASE event.ev = "Start" /\ event.tag = "Link" ->
            [event EXCEPT !.dest = fix_a_links_with_type(event.dest, p, order,
                                                         event.link_type)]
      [] event.ev = "Start" /\ event.tag = "Image" ->
            [event EXCEPT !.dest = fix_resource_links(event.dest, p)]
      [] event.ev \in {"Html", "InlineHtml"} -> fix_html(event, p, order)
      [] OTHER -> event

-----------------------------------------------------------------------------
(* Structural post-processors.                                             *)

RECURSIVE clean_info(_)
clean_info(info) ==
    IF info = <<>> THEN <<>>
    ELSE LET x == IF info[1] \in {" ", "\t"} THEN "," ELSE info[1]
         IN  (IF x \in Whitespace THEN <<>> ELSE <<x>>) \o clean_info(Tail(info))

clean_codeblock_headers(event) ==
    IF event.ev = "Start" /\ event.tag = "CodeBlock"
    THEN [event EXCEPT !.name = clean_info(event.name)]
    ELSE event

\* a plausible slip: the table events pass as they are
wrap_tables_unwrapped(event) == <<event>>

\* the two options of wrap_tables, chained
wrap_tables(event) ==
    IF event.ev = "Start" /\ event.tag = "Table"
    THEN <<Event("Html", "div.table-wrapper", <<>>), event>>
    ELSE IF event.ev = "End" /\ event.tag = "Table"
    THEN <<event, Event("Html", "/div", <<>>)>>
    ELSE <<event>>

-----------------------------------------------------------------------------
(* Footnote Collator: the filter_map closure of                            *)
(* render_markdown_with_path_and_redirects, and add_footnote_defs.         *)

RECURSIVE special_escape(_)
special_escape(s) ==
    IF s = <<>> THEN <<>>
    ELSE (CASE s[1] = "<" -> <<"&","l","t",";">>
            [] s[1] = ">" -> <<"&","g","t",";">>
            [] s[1] = "'" -> <<"&","#","3","9",";">>
            [] s[1] = "\"" -> <<"&","q","u","o","t",";">>
            [] s[1] = "\\" -> <<"&","#","9","2",";">>
            [] s[1] = "&" -> <<"&","a","m","p",";">>
            [] OTHER -> <<s[1]>>) \o special_escape(Tail(s))

\* a log::warn! record
Warning(kind, name) == [kind |-> kind, name |-> name]

\* a plausible slip: numbering starts at 0
next_number_from_zero(numbers) == Cardinality(DOMAIN numbers)

\* let len = footnote_numbers.len() + 1
next_number(numbers) == Cardinality(DOMAIN numbers) + 1

\* footnote_numbers.entry(name).or_insert((len, 0)), then *count += 1
count_reference(numbers, name) ==
    LET entry == IF name \in DOMAIN numbers THEN numbers[name]
                 ELSE <<next_number(numbers), 0>>
    IN  [k \in DOMAIN numbers \cup {name} |->
            IF k = name THEN <<entry[1], entry[2] + 1>> ELSE numbers[k]]

\* the <sup class="footnote-reference" id="fr-{name}-{count}">
\*     <a href="#footnote-{name}">{n}</a></sup> fragment
reference_html(name, n, count) ==
    [Event("Html", "sup", name) EXCEPT
        !.id = <<"f","r","-">> \o name \o <<"-">> \o to_string(count),
        !.dest = <<"#","f","o","o","t","n","o","t","e","-">> \o name,
        !.text = to_string(n)]

\* a plausible slip: the test for an earlier definition never answers true
contains_key_never(defs, name) == FALSE

\* footnote_defs.contains_key(&name)
contains_key(defs, name) == name \in DOMAIN defs

\* footnote_defs.insert(name, def_events)
store_def(defs, name, def_events) ==
    [k \in DOMAIN defs \cup {name} |-> IF k = name THEN def_events ELSE defs[k]]

\* the closure's captured state, as a record
Closure(name, buf, defs, numbers, warns, out, made) ==
    [in_footnote_name |-> name, in_footnote |-> buf, footnote_defs |-> defs,
     footnote_numbers |-> numbers, warnings |-> warns, out |-> out, made |-> made]

\* one call of the filter_map closure: `out` gains what it returns as Some,
\* `made` what it returned or put into in_footnote
footnote_filter(st, event) ==
    CASE event.ev = "Start" /\ event.tag = "FootnoteDefinition" ->
            [st EXCEPT
                !.warnings = IF st.in_footnote # <<>>
                             THEN Append(@, Warning("nested", <<>>)) ELSE @,
                !.in_footnote_name = special_escape(event.name)]
      [] event.ev = "End" /\ event.tag = "FootnoteDefinition" ->
            LET def_events == st.in_footnote
                name == st.in_footnote_name
            IN  IF contains_key(st.footnote_defs, name)
                THEN [st EXCEPT !.in_footnote = <<>>,
                                !.in_footnote_name = <<>>,
                                !.warnings = Append(@, Warning("multiple", name))]
                ELSE [st EXCEPT !.in_footnote = <<>>,
                                !.in_footnote_name = <<>>,
                                !.footnote_defs = store_def(@, name, def_events)]
      [] event.ev = "FootnoteReference" ->
            LET name == special_escape(event.name)
                numbers == count_reference(st.footnote_numbers, name)
                html == reference_html(name, numbers[name][1], numbers[name][2])
            IN  IF st.in_footnote_name = <<>>
                THEN [st EXCEPT !.footnote_numbers = numbers,
                                !.out = Append(@, html),
                                !.made = Append(@, html)]
                ELSE [st EXCEPT !.footnote_numbers = numbers,
                                !.in_footnote = Append(@, html),
                                !.made = Append(@, html)]
      [] OTHER ->
            IF st.in_footnote_name # <<>>
            THEN [st EXCEPT !.in_footnote = Append(@, event), !.made = Append(@, event)]
            ELSE [st EXCEPT !.out = Append(@, event), !.made = Append(@, event)]

RECURSIVE filter_all(_, _)
filter_all(st, events) ==
    IF events = <<>> THEN st
    ELSE filter_all(footnote_filter(st, events[1]), Tail(events))

\* a plausible slip: the closure of retain answers false on both branches
is_referenced_never(name, numbers) == FALSE

\* numbers.contains_key(name), the test of defs.retain
is_referenced(name, numbers) == name \in DOMAIN numbers

\* the warnings of defs.retain, in the order of the vector
RECURSIVE unused_warnings(_, _)
unused_warnings(names, numbers) ==
    IF names = <<>> THEN <<>>
    ELSE (IF is_referenced(names[1], numbers) THEN <<>>
          ELSE <<Warning("unused", names[1])>>)
         \o unused_warnings(Tail(names), numbers)

\* insertion into a vector sorted by number, after the equal keys (stable)
RECURSIVE insert_sorted(_, _, _)
insert_sorted(sorted, name, numbers) ==
    IF sorted = <<>> THEN <<name>>
    ELSE IF numbers[name][1] < numbers[sorted[1]][1] THEN <<name>> \o sorted
    ELSE <<sorted[1]>> \o insert_sorted(Tail(sorted), name, numbers)

RECURSIVE stable_sort(_, _, _)
stable_sort(names, numbers, sorted) ==
    IF names = <<>> THEN sorted
    ELSE stable_sort(Tail(names), numbers, insert_sorted(sorted, names[1], numbers))

\* a plausible slip: the definitions stay in the order of the vector
sort_by_number_missing(names, numbers) == names

\* defs.sort_by_cached_key(|(name, _)| numbers[name].0)
sort_by_number(names, numbers) == stable_sort(names, numbers, <<>>)

\* the prefix of add_footnote_defs
backlink_prefix(p) ==
    IF p = None THEN <<>>
    ELSE IF page_id(p) = <<>> THEN <<>>
    ELSE page_id(p) \o <<"-">>

\* the <a href="#{prefix}fr-{name}-{usage}">↩{nth}</a> fragment
backlink_html(prefix, name, usage) ==
    [Event("Html", "backlink", name) EXCEPT
        !.dest = <<"#">> \o prefix \o <<"f","r","-">> \o name \o <<"-">>
                 \o to_string(usage),
        !.text = IF usage = 1 THEN <<>> ELSE to_string(usage)]

\* a plausible slip: the loop runs over 1..count, exclusive
last_usage_exclusive(count) == count - 1

\* the upper end of `for usage in 1..=count`
last_usage(count) == count

\* the loop that generates the linkbacks, from `usage` on
RECURSIVE add_backlinks(_, _, _, _, _)
add_backlinks(fn_events, prefix, name, usage, count) ==
    IF usage > last_usage(count) THEN fn_events
    ELSE LET backlink == backlink_html(prefix, name, usage)
             n == Len(fn_events)
             placed == IF n > 0 /\ fn_events[n] = End("Paragraph")
                       THEN SubSeq(fn_events, 1, n - 1) \o <<backlink, fn_events[n]>>
                       ELSE Append(fn_events, backlink)
         IN  add_backlinks(placed, prefix, name, usage + 1, count)

\* what one definition adds to the body
definition_html(name, def_events, prefix, numbers) ==
    add_backlinks(<<[Event("Html", "li", name) EXCEPT
                        !.id = <<"f","o","o","t","n","o","t","e","-">> \o name]>>
                  \o def_events,
                  prefix, name, 1, numbers[name][2])
    \o <<Event("Html", "/li", <<>>)>>

RECURSIVE definitions_html(_, _, _, _)
definitions_html(names, defs, prefix, numbers) ==
    IF names = <<>> THEN <<>>
    ELSE definition_html(names[1], defs[names[1]], prefix, numbers)
         \o definitions_html(Tail(names), defs, prefix, numbers)

\* the body after add_footnote_defs; `order` is the order of the vector that
\* footnote_defs.into_iter().collect() built
add_footnote_defs(b, p, order, defs, numbers) ==
    LET kept == SelectSeq(order, LAMBDA name : is_referenced(name, numbers))
        sorted == sort_by_number(kept, numbers)
    IN  b \o <<Event("Html", "hr+ol", <<>>)>>
          \o definitions_html(sorted, defs, backlink_prefix(p), numbers)
          \o <<Event("Html", "/ol", <<>>)>>

-----------------------------------------------------------------------------
(* render_markdown_with_path_and_redirects as a state machine: one step    *)
(* per parser event, then the step that appends the definitions.           *)

\* the closure's captured state becomes the state of the render
Captured(st) ==
    /\ piped' = Append(piped, st.made)
    /\ in_footnote_name' = st.in_footnote_name
    /\ in_footnote' = st.in_footnote
    /\ footnote_defs' = st.footnote_defs
    /\ footnote_numbers' = st.footnote_numbers
    /\ warnings' = st.warnings
    /\ body' = st.out

\* the adjusted event goes on to wrap_tables and the closure, unless
\* adjust_links panicked
Pipe(adjusted) ==
    IF Panic \in {adjusted.dest, adjusted.name}
    THEN /\ pc' = "panicked"
         /\ piped' = Append(piped, <<>>)
         /\ UNCHANGED <<footnote_numbers, footnote_defs, in_footnote_name,
                        in_footnote, body, warnings>>
    ELSE /\ pc' = pc
         /\ Captured(filter_all(Closure(in_footnote_name, in_footnote, footnote_defs,
                                        footnote_numbers, warnings, body, <<>>),
                                wrap_tables(adjusted)))

\* how many footnote definitions the parser has open after these events
definitions_open(events) ==
    Cardinality({i \in 1..Len(events) :
                    events[i].ev = "Start" /\ events[i].tag = "FootnoteDefinition"})
    - Cardinality({i \in 1..Len(events) :
                      events[i].ev = "End" /\ events[i].tag = "FootnoteDefinition"})

\* the next event of the stream goes through the whole chain of adapters;
\* `order` is the traversal order of the redirect table for this event
RenderEvent(event, order) ==
    /\ pc = "events"
    /\ Len(stream) < MaxEvents
    /\ stream' = Append(stream, event)
    /\ open' = (definitions_open(Append(stream, event)) > 0)
    /\ Pipe(adjust_links(clean_codeblock_headers(event), path, order))
    /\ UNCHANGED <<path, redirects, returned, id_counter, id_contents, id_results>>

\* the stream is exhausted (the parser has closed what it opened): the
\* definitions are appended and the body is returned
Finish(order) ==
    /\ pc = "events"
    /\ ~open
    /\ pc' = "done"
    /\ IF DOMAIN footnote_defs # {}
       THEN /\ warnings' = warnings \o unused_warnings(order, footnote_numbers)
            /\ body' = add_footnote_defs(body, path, order, footnote_defs,
                                         footnote_numbers)
       ELSE UNCHANGED <<warnings, body>>
    /\ UNCHANGED <<path, redirects, returned, stream, open, piped, footnote_numbers,
                   footnote_defs, in_footnote_name, in_footnote,
                   id_counter, id_contents, id_results>>

-----------------------------------------------------------------------------
(* The state before any render call: nothing consumed, nothing collected.  *)

RenderInit(p, r) ==
    /\ path = p
    /\ redirects = r
    /\ stream = <<>>
    /\ open = FALSE
    /\ piped = <<>>
    /\ footnote_numbers = <<>>
    /\ footnote_defs = <<>>
    /\ in_footnote_name = <<>>
    /\ in_footnote = <<>>
    /\ body = <<>>
    /\ warnings = <<>>
    /\ pc = "events"
    /\ returned = <<>>

\* the call returned, and the caller renders the next page of the book with
\* the same redirect table: every local of the call starts afresh
next_render(p) ==
    /\ pc = "done"
    /\ Len(returned) + 1 < MaxRenders
    /\ returned' = Append(returned, [path |-> path, stream |-> stream, piped |-> piped])
    /\ path' = p
    /\ stream' = <<>>
    /\ open' = FALSE
    /\ piped' = <<>>
    /\ footnote_numbers' = <<>>
    /\ footnote_defs' = <<>>
    /\ in_footnote_name' = <<>>
    /\ in_footnote' = <<>>
    /\ body' = <<>>
    /\ warnings' = <<>>
    /\ pc' = "events"
    /\ UNCHANGED <<redirects, id_counter, id_contents, id_results>>

-----------------------------------------------------------------------------
(* Spec: render calls over streams of footnote events. The closure tells   *)
(* apart definition starts and ends, references and everything else, and   *)
(* add_footnote_defs looks for a paragraph end: Text stands for every      *)
(* other event. The parser closes a definition before it opens the next.   *)

FootnoteNames == { <<"a">>, <<"<">> }

FootnotePaths == { None, <<"c","/","p",".","m","d">> }

FootnoteEvents ==
    {Text(<<"x">>), End("Paragraph"), End("FootnoteDefinition")}
    \cup {FootnoteReference(n) : n \in FootnoteNames}
    \cup {StartFootnoteDefinition(n) : n \in FootnoteNames}

IsRef(e) == e.ev = "FootnoteReference"
IsDefStart(e) == e.ev = "Start" /\ e.tag = "FootnoteDefinition"
IsDefEnd(e) == e.ev = "End" /\ e.tag = "FootnoteDefinition"
IsOther(e) == ~IsRef(e) /\ ~IsDefStart(e) /\ ~IsDefEnd(e)

\* the arm of the closure's match that takes the event
ArmOf(e) ==
    IF IsDefStart(e) THEN "start"
    ELSE IF IsDefEnd(e) THEN "end"
    ELSE IF IsRef(e) THEN "reference"
    ELSE "other"

\* how many events of the stream went to an arm
Count(arm) == Cardinality({i \in 1..Len(stream) : ArmOf(stream[i]) = arm})

\* the bounds on what one stream holds
Quota(event) ==
    /\ IsRef(event) => Count("reference") < MaxRefs
    /\ IsDefStart(event) => Count("start") < MaxDefs
    /\ IsOther(event) => Count("other") < MaxOther

\* what the parser can emit next, given what it has open
NotNested(event) ==
    /\ IsDefStart(event) => ~open
    /\ IsDefEnd(event) => open

InitIdle ==
    /\ id_counter = <<>>
    /\ id_contents = <<>>
    /\ id_results = <<>>

Init ==
    /\ InitIdle
    /\ \E p \in FootnotePaths : RenderInit(p, {})

Next ==
    \/ \E event \in FootnoteEvents : NotNested(event) /\ Quota(event) /\ RenderEvent(event, <<>>)
    \/ \E order \in Orders(DOMAIN footnote_defs) : Finish(order)

Spec == Init /\ [][Next]_vars

-----------------------------------------------------------------------------
(* SpecLinks: render calls over streams of link, image, raw HTML and code  *)
(* block events, in standalone mode and in print mode with a redirect      *)
(* table.                                                                  *)

LinkDests ==
    { <<"f",".","m","d">>,
      <<"f",".","m","d","#","a">>,
      <<"f",".","h","t","m","l","#","b">>,
      <<"f",".","m","d","#","b",".","m","d">>,
      <<"d","/","g",".","h","t","m","l","#","x",".","h","t","m","l">>,
      <<".",".","/","g",".","m","d">>,
      <<"a","/",".",".","/","b",".","m","d">>,
      <<".",".","/",".",".","/","o",".","h","t","m","l">>,
      <<".",".","\\","g",".","m","d">>,
      <<"n","/">>,
      <<".","/">>,
      <<"/","f",".","m","d">>,
      <<"/","r">>,
      <<"h","t","t","p","s",":","/","/","e",".","m","d">>,
      <<"H","T","T","P",":","/","/","e",".","m","d">>,
      <<"x","2",":","y">>,
      <<"#","s">>,
      <<"#","S">>,
      <<"#","a","#","b">> }

LinkPaths == { None, <<"c","/","p",".","m","d">>, <<"p",".","m","d">> }

RedirectTables ==
    { {},
      { <<<<"/","c","/","f",".","h","t","m","l">>, <<"g",".","h","t","m","l">>>> },
      { <<<<"f",".","h","t","m","l">>, <<"h","t","t","p","s",":","/","/","e",".","c","o","m","/">>>> },
      { <<<<"/">>, <<"x",".","h","t","m","l">>>> },
      { <<<<"f",".","h","t","m","l">>, <<"g",".","h","t","m","l">>>>, <<<<"f",".","h","t","m","l","#","a">>, <<"h",".","h","t","m","l","#","t">>>> } }

LinkEvents ==
    {StartLink("Inline", d) : d \in LinkDests}
    \cup {StartLink("Email", <<"u","@","f",".","m","d">>), StartLink("Email", <<"#","s">>)}
    \cup {StartImage(d) : d \in {<<"i",".","p","n","g">>, <<"/","i",".","p","n","g">>, <<"h","t","t","p","s",":","/","/","e","/","i",".","p","n","g">>}}
    \cup {HtmlA(d) : d \in {<<"f",".","m","d","#","a">>, <<"#","s">>, <<"/","f",".","m","d">>}}
    \cup {HtmlImg(<<"i",".","p","n","g">>), HtmlAName(<<"n">>), StartCodeBlock(<<"r"," ","s">>), Text(<<"x">>)}

InitLinks ==
    /\ InitIdle
    /\ \E p \in LinkPaths : \E r \in RedirectTables : RenderInit(p, r)

NextLinks ==
    \/ \E event \in LinkEvents : \E order \in Orders(redirects) :
          Len(stream) < MaxLinks /\ RenderEvent(event, order)
    \/ Finish(<<>>)

SpecLinks == InitLinks /\ [][NextLinks]_vars

-----------------------------------------------------------------------------
(* SpecNested: render calls over streams in which a footnote definition    *)
(* may start while another is open, the case the closure's first arm warns *)
(* about. Every definition that starts is ended before the stream ends.    *)

\* an end comes only for a definition that is open
Balanced(event) == IsDefEnd(event) => open

NextNested ==
    \/ \E event \in FootnoteEvents :
          Balanced(event) /\ Quota(event) /\ RenderEvent(event, <<>>)
    \/ \E order \in Orders(DOMAIN footnote_defs) : Finish(order)

SpecNested == Init /\ [][NextNested]_vars

-----------------------------------------------------------------------------
(* SpecTables: render calls over streams that hold tables, in the main     *)
(* body and inside footnote definitions. The parser closes a table before  *)
(* it opens the next, and tables and definitions nest properly.            *)

IsTableStart(e) == e.ev = "Start" /\ e.tag = "Table"
IsTableEnd(e) == e.ev = "End" /\ e.tag = "Table"

TableEvents ==
    {Start("Table"), End("Table"), Text(<<"x">>), End("Paragraph"),
     FootnoteReference(<<"a">>), StartFootnoteDefinition(<<"a">>),
     End("FootnoteDefinition")}

\* the positions of the table events consumed so far
TablePositions == {i \in 1..Len(stream) : stream[i].tag = "Table"}

\* the parser has a table open
TableOpen == TablePositions # {} /\ IsTableStart(stream[Max(TablePositions)])

\* what the parser can emit next, given what it has open
WellNested(event) ==
    /\ NotNested(event)
    /\ IsTableStart(event) => ~TableOpen
    /\ IsTableEnd(event) => TableOpen
    /\ IsDefStart(event) => ~TableOpen
    /\ IsDefEnd(event) => ~TableOpen

\* the bounds on what one stream of this specification holds
TableQuota(event) ==
    /\ Len(stream) < MaxTableEvents
    /\ IsTableStart(event) =>
           Cardinality({i \in TablePositions : IsTableStart(stream[i])}) < MaxTables
    /\ IsDefStart(event) => Count("start") < MaxDefs
    /\ IsRef(event) => Count("reference") < MaxRefs

InitTables ==
    /\ InitIdle
    /\ \E p \in FootnotePaths : RenderInit(p, {})

NextTables ==
    \/ \E event \in TableEvents :
          WellNested(event) /\ TableQuota(event) /\ RenderEvent(event, <<>>)
    \/ \E order \in Orders(DOMAIN footnote_defs) : ~TableOpen /\ Finish(order)

SpecTables == InitTables /\ [][NextTables]_vars

-----------------------------------------------------------------------------
(* SpecBook: the pages of a book rendered for the print page, one call per *)
(* page, with links to anchors of the page itself and of other pages.      *)

BookPaths == { <<"c","/","p",".","m","d">>, <<"c","/","q",".","m","d">>,
               <<"q",".","m","d">> }

BookDests ==
    { <<"#","s">>, <<"#","S">>,
      <<"p",".","m","d","#","s">>, <<"p",".","m","d","#","S">>,
      <<"c","/","p",".","m","d","#","s">>, <<"c","/","p",".","m","d","#","S">> }

InitBook ==
    /\ InitIdle
    /\ \E p \in BookPaths : RenderInit(p, {})

NextBook ==
    \/ \E d \in BookDests :
          Len(stream) < MaxLinks /\ RenderEvent(StartLink("Inline", d), <<>>)
    \/ Finish(<<>>)
    \/ \E p \in BookPaths : next_render(p)

SpecBook == InitBook /\ [][NextBook]_vars

-----------------------------------------------------------------------------
(* SpecRedirects: a page rendered for the print page more than once with   *)
(* the same redirect table, as one build after another does; the HashMap   *)
(* hands out its entries in an order of its own in every call.             *)

RedirectPaths == { <<"p",".","m","d">>, <<"c","/","p",".","m","d">> }

RedirectDests ==
    { <<"f",".","m","d">>, <<"f",".","m","d","#","a">>,
      <<"f",".","h","t","m","l","#","b">>, <<"/","f",".","m","d">> }

InitRedirects ==
    /\ InitIdle
    /\ \E p \in RedirectPaths : \E r \in RedirectTables : RenderInit(p, r)

NextRedirects ==
    \/ \E d \in RedirectDests : \E order \in Orders(redirects) :
          Len(stream) < MaxLinks /\ RenderEvent(StartLink("Inline", d), order)
    \/ Finish(<<>>)
    \/ next_render(path)

SpecRedirects == InitRedirects /\ [][NextRedirects]_vars

-----------------------------------------------------------------------------
(* SpecIds: calls of unique_id_from_content on caller-owned counters.      *)

InitIds ==
    /\ InitIdle
    /\ RenderInit(None, {})

NextIds ==
    \/ \E content \in Contents : unique_id_from_content(content)
    \/ new_id_counter

SpecIds == InitIds /\ [][NextIds]_vars

-----------------------------------------------------------------------------
(* Claims about the anchor id generator.                                   *)

\* how many of the calls 1..i of this counter normalize to the id of call i
Occurrence(i) ==
    Cardinality({j \in 1..i :
        id_from_content(id_contents[j]) = id_from_content(id_contents[i])})

\* C1: all ids returned for one id_counter are pairwise distinct, whatever the
\* heading texts are.
C1_IdsPairwiseDistinct ==
    \A i, j \in 1..Len(id_results) : i # j => id_results[i] # id_results[j]

\* C2: the k-th call whose heading text normalizes to the same id returns `id`
\* for k = 1 and `id-(k-1)` for k > 1, whatever calls come in between; the
\* first call on a fresh counter is unsuffixed.
C2_KthCallSuffix ==
    \A i \in 1..Len(id_results) :
        LET id == id_from_content(id_contents[i])
            k == Occurrence(i)
        IN  id_results[i] =
                IF k = 1 THEN id ELSE id \o <<"-">> \o to_string(k - 1)

\* a third occurrence of an id with a call for another id in between
C2_Witness ==
    \E i \in 1..Len(id_results) :
        /\ Occurrence(i) = 3
        /\ id_results[i] = <<"a","-","2">>
        /\ \E j \in 1..(i - 1) :
              id_from_content(id_contents[j]) # id_from_content(id_contents[i])

-----------------------------------------------------------------------------
(* Claims about the footnote collator.                                     *)

RECURSIVE Concat(_)
Concat(seqs) == IF seqs = <<>> THEN <<>> ELSE seqs[1] \o Concat(Tail(seqs))

\* the positions of the stream that refer to the footnote stored under `key`
RefPositions(key) ==
    {i \in 1..Len(stream) : IsRef(stream[i]) /\ special_escape(stream[i].name) = key}

\* the keys of the names referred to, and of the names defined, in the stream
ReferencedKeys == {special_escape(stream[i].name) : i \in {j \in 1..Len(stream) : IsRef(stream[j])}}

\* the end of the definition that starts at i, 0 while it is open
DefEndOf(i) ==
    LET ends == {j \in (i + 1)..Len(stream) : IsDefEnd(stream[j])}
    IN  IF ends = {} THEN 0 ELSE CHOOSE j \in ends : \A k \in ends : j <= k

\* the starts of the closed definitions of `key`
ClosedDefs(key) ==
    {i \in 1..Len(stream) :
        /\ IsDefStart(stream[i])
        /\ special_escape(stream[i].name) = key
        /\ DefEndOf(i) # 0}

DefinedKeys == {special_escape(n) : n \in {m \in FootnoteNames : ClosedDefs(special_escape(m)) # {}}}

\* what the closure made of the events inside the definition that starts at i
DefBody(i) == Concat([j \in 1..(DefEndOf(i) - i - 1) |-> piped[i + j]])

\* the positions of the body that hold a fragment of the given element
Fragments(tag) == {i \in 1..Len(body) : body[i].ev = "Html" /\ body[i].tag = tag}

\* the list item of `key` that starts at position i of the body: up to its </li>
ItemEnd(i) == Min({j \in Fragments("/li") : j > i})
ItemBacklinks(i) ==
    SelectSeq(SubSeq(body, i + 1, ItemEnd(i) - 1), LAMBDA e : e.tag = "backlink")
ItemBody(i) ==
    SelectSeq(SubSeq(body, i + 1, ItemEnd(i) - 1), LAMBDA e : e.tag # "backlink")
ItemsOf(key) == {i \in Fragments("li") : body[i].name = key}

\* C3: in every render output the target of each footnote back-link equals
\* the anchor id of a footnote-reference superscript present in that output.
C3_BacklinksResolve ==
    pc = "done" =>
        \A i \in Fragments("backlink") :
            \E j \in Fragments("sup") : body[i].dest = <<"#">> \o body[j].id

\* C4: after any prefix of the stream the numbers of the n names referenced so
\* far are exactly 1..n, a name first referenced earlier has the smaller
\* number, and every reference shows the number given at the first reference.
C4_NumbersInFirstReferenceOrder ==
    /\ DOMAIN footnote_numbers = ReferencedKeys
    /\ {footnote_numbers[k][1] : k \in DOMAIN footnote_numbers}
           = 1..Cardinality(ReferencedKeys)
    /\ \A k1, k2 \in ReferencedKeys :
           Min(RefPositions(k1)) < Min(RefPositions(k2))
               => footnote_numbers[k1][1] < footnote_numbers[k2][1]
    /\ \A k \in ReferencedKeys : \A i \in RefPositions(k) :
           /\ Len(piped[i]) = 1
           /\ piped[i][1].text = to_string(footnote_numbers[k][1])

\* two names, the first referenced again after the second
C4_Witness ==
    \E i, j, k \in 1..Len(stream) :
        /\ i < j /\ j < k
        /\ IsRef(stream[i]) /\ IsRef(stream[j]) /\ IsRef(stream[k])
        /\ stream[i].name # stream[j].name
        /\ stream[k].name = stream[i].name
        /\ piped[k][1].text = <<"1">>
        /\ piped[j][1].text = <<"2">>

\* C5: a definition whose name is never referenced is not rendered and gives
\* exactly one 'defined but not referenced' diagnostic; every definition name
\* that is referenced is rendered exactly once.
C5_UnreferencedDropped ==
    pc = "done" =>
        \A key \in DefinedKeys :
            IF key \in ReferencedKeys
            THEN Cardinality(ItemsOf(key)) = 1
            ELSE /\ ItemsOf(key) = {}
                 /\ Cardinality({i \in 1..Len(warnings) :
                                    warnings[i] = Warning("unused", key)}) = 1

\* one definition dropped and one rendered in the same output
C5_Witness ==
    /\ pc = "done"
    /\ \E k1, k2 \in DefinedKeys :
          /\ k1 \notin ReferencedKeys
          /\ k2 \in ReferencedKeys
          /\ ItemsOf(k2) # {}
          /\ Warning("unused", k1) \in {warnings[i] : i \in 1..Len(warnings)}

\* the back-link targets of the item at i, given the prefix of the targets
BacklinksAre(i, key, prefix) ==
    LET c == Cardinality(RefPositions(key))
    IN  /\ Len(ItemBacklinks(i)) = c
        /\ \A k \in 1..c :
              ItemBacklinks(i)[k].dest =
                  <<"#">> \o prefix \o <<"f","r","-">> \o key \o <<"-">> \o to_string(k)

\* the k-th reference to `key` was given the anchor id fr-<key>-k
AnchorsAre(key) ==
    \A i \in RefPositions(key) :
        piped[i][1].id =
            <<"f","r","-">> \o key \o <<"-">>
            \o to_string(Cardinality({j \in RefPositions(key) : j <= i}))

\* C6 as stated: each rendered definition carries one back-link per reference
\* to its name, targeting fr-<name>-1 .. fr-<name>-c in that order, and the
\* k-th reference was emitted with anchor id fr-<name>-k.
C6_BacklinksPerReference_Original ==
    pc = "done" =>
        \A key \in DefinedKeys : \A i \in ItemsOf(key) :
            BacklinksAre(i, key, <<>>) /\ AnchorsAre(key)

\* C6, amended: as above, and in print mode the back-link targets carry the
\* page id of the current page: <page-id>-fr-<name>-k.
C6_BacklinksPerReference ==
    pc = "done" =>
        \A key \in DefinedKeys : \A i \in ItemsOf(key) :
            /\ BacklinksAre(i, key,
                   IF path = None \/ page_id(path) = <<>> THEN <<>>
                   ELSE page_id(path) \o <<"-">>)
            /\ AnchorsAre(key)

\* a rendered definition referenced twice, once from inside a definition, in
\* print mode
C6_Witness ==
    /\ pc = "done"
    /\ path # None
    /\ \E key \in DefinedKeys : \E i \in ItemsOf(key) :
          /\ Len(ItemBacklinks(i)) = 2
          /\ \E r \in RefPositions(key) :
                \E d \in 1..Len(stream) :
                    IsDefStart(stream[d]) /\ d < r /\ r < DefEndOf(d)

\* C7: when several definitions carry the same name, the body stored and later
\* rendered is the body of the first one; each later one leaves it unchanged
\* and gives one 'defined multiple times' diagnostic.
C7_FirstDefinitionKept ==
    \A key \in DefinedKeys :
        /\ key \in DOMAIN footnote_defs
        /\ footnote_defs[key] = DefBody(Min(ClosedDefs(key)))
        /\ Cardinality({i \in 1..Len(warnings) : warnings[i] = Warning("multiple", key)})
               = Cardinality(ClosedDefs(key)) - 1
        /\ pc = "done" =>
               \A i \in ItemsOf(key) : ItemBody(i) = DefBody(Min(ClosedDefs(key)))

\* a name defined twice with different bodies, and rendered
C7_Witness ==
    /\ pc = "done"
    /\ \E key \in DefinedKeys :
          /\ ItemsOf(key) # {}
          /\ \E d1, d2 \in ClosedDefs(key) : d1 < d2 /\ DefBody(d1) # DefBody(d2)

\* C8: the definitions appended after the main body appear in strictly
\* increasing order of their display number, whatever the order in which they
\* were declared.
C8_AppendixInNumberOrder ==
    pc = "done" =>
        \A i, j \in Fragments("li") :
            i < j => footnote_numbers[body[i].name][1] < footnote_numbers[body[j].name][1]

\* two rendered definitions, the one declared first referenced last
C8_Witness ==
    /\ pc = "done"
    /\ \E i, j \in Fragments("li") :
          /\ i < j
          /\ Min(ClosedDefs(body[j].name)) < Min(ClosedDefs(body[i].name))

-----------------------------------------------------------------------------
(* Claims about the link resolver.                                         *)

\* the positions of the stream that hold a link that is not an email link
LinkPositions ==
    {i \in 1..Len(piped) :
        /\ stream[i].ev = "Start" /\ stream[i].tag = "Link"
        /\ stream[i].link_type # "Email"
        /\ Len(piped[i]) = 1}

\* the destination the link at i was emitted with
Emitted(i) == piped[i][1].dest

\* a destination that starts with letters of a given set followed by `:`
LetterRunThenColon(d, letters) ==
    \E k \in 2..Len(d) : d[k] = ":" /\ \A i \in 1..(k - 1) : d[i] \in letters

\* neither fragment-only, nor scheme-prefixed, nor root-relative
IsRelative(d) ==
    /\ d # <<>>
    /\ d[1] \notin {"#", "/"}
    /\ ~LetterRunThenColon(d, Lowers \cup Uppers)

\* the first `#` of a destination, Len + 1 when it has none
HashAt(d) == Min({i \in 1..Len(d) : d[i] = "#"} \cup {Len(d) + 1})

\* <stem>.md or <stem>.html, optionally followed by #<fragment>
HasPageForm(d) ==
    \/ ends_with(SubSeq(d, 1, HashAt(d) - 1), <<".","m","d">>)
    \/ ends_with(SubSeq(d, 1, HashAt(d) - 1), <<".","h","t","m","l">>)

\* <stem>.html followed by the same #<fragment>
WithHtmlExtension(d) ==
    LET page == SubSeq(d, 1, HashAt(d) - 1)
        stem == IF ends_with(page, <<".","m","d">>)
                THEN SubSeq(page, 1, Len(page) - 3)
                ELSE SubSeq(page, 1, Len(page) - 5)
    IN  stem \o <<".","h","t","m","l">> \o SubSeq(d, HashAt(d), Len(d))

\* C9: in standalone mode every relative link destination <stem>.md or
\* <stem>.html, optionally followed by #<fragment>, is rewritten to
\* <stem>.html followed by the same #<fragment>, for every fragment text.
C9_ExtensionFixedFragmentKept ==
    path = None =>
        \A i \in LinkPositions :
            IsRelative(stream[i].dest) /\ HasPageForm(stream[i].dest)
                => Emitted(i) = WithHtmlExtension(stream[i].dest)

\* C10 as stated: a link whose destination is scheme-prefixed (a leading
\* ASCII-letter run followed by `:`) or root-relative (leading `/`) is emitted
\* with its destination unchanged, in standalone mode and in print mode.
C10_SchemeAndRootUnchanged_Original ==
    \A i \in LinkPositions :
        \/ LetterRunThenColon(stream[i].dest, Lowers \cup Uppers)
        \/ starts_with(stream[i].dest, <<"/">>)
        => Emitted(i) = stream[i].dest

\* C10, amended: a link whose destination starts with a run of lower-case
\* ASCII letters followed by `:` is emitted unchanged in both modes; a
\* root-relative destination is emitted unchanged in standalone mode when it
\* holds no `.md` or `.html`.
C10_SchemeAndRootUnchanged ==
    \A i \in LinkPositions :
        /\ LetterRunThenColon(stream[i].dest, Lowers) => Emitted(i) = stream[i].dest
        /\ (/\ path = None
            /\ starts_with(stream[i].dest, <<"/">>)
            /\ ~contains(stream[i].dest, <<".","m","d">>)
            /\ ~contains(stream[i].dest, <<".","h","t","m","l">>))
           => Emitted(i) = stream[i].dest

\* a scheme-prefixed destination that ends in .md, emitted in print mode under
\* a redirect table
C10_Witness ==
    /\ path # None
    /\ redirects # {}
    /\ \E i \in LinkPositions :
          /\ stream[i].dest = <<"h","t","t","p","s",":","/","/","e",".","m","d">>
          /\ Emitted(i) = stream[i].dest

\* the positions of the stream that hold a raw <a href="..."> fragment
AnchorPositions ==
    {i \in 1..Len(piped) :
        /\ stream[i].ev = "Html" /\ stream[i].tag = "a"
        /\ Len(piped[i]) = 1}

\* the destination without its leading `#`
FragmentText(d) == SubSeq(d, 2, Len(d))

\* C11 as stated: a fragment-only destination #<fragment> is rewritten in
\* print mode to #<page-id>-<fragment>, with the page id of the current page,
\* and is left unchanged in standalone mode.
C11_FragmentOnlyPrefixed_Original ==
    \A i \in LinkPositions \cup AnchorPositions :
        starts_with(stream[i].dest, <<"#">>) =>
            Emitted(i) = IF path = None THEN stream[i].dest
                         ELSE <<"#">> \o page_id(path) \o <<"-">>
                              \o FragmentText(stream[i].dest)

\* C11, amended: as above, and in print mode every `#` inside the fragment is
\* replaced by `-`.
C11_FragmentOnlyPrefixed ==
    \A i \in LinkPositions \cup AnchorPositions :
        starts_with(stream[i].dest, <<"#">>) =>
            Emitted(i) = IF path = None THEN stream[i].dest
                         ELSE <<"#">> \o page_id(path) \o <<"-">>
                              \o replace(FragmentText(stream[i].dest), <<"#">>, <<"-">>)

\* a fragment-only link on a page in a directory, in print mode
C11_Witness ==
    /\ path = <<"c","/","p",".","m","d">>
    /\ \E i \in LinkPositions :
          /\ stream[i].dest = <<"#","s">>
          /\ Emitted(i) = <<"#","c","-","p","-","s">>

\* a destination that starts with a URL scheme
IsSchemeUrl(d) ==
    \E k \in 2..Len(d) :
        /\ d[k] = ":"
        /\ d[1] \in Lowers \cup Uppers
        /\ \A i \in 2..(k - 1) : d[i] \in Lowers \cup Uppers \cup Digits \cup {"+", ".", "-"}

ExtensionFixed(d) == push_link(d, HTML_MD_LINK(d))

\* C13 as stated: in standalone mode the destination emitted for a relative
\* link is the path-normalized form of the link (`.` and `..` resolved, leading
\* slash stripped) with its extension fixed to .html.
C13_StandaloneNormalized_Original ==
    path = None =>
        \A i \in LinkPositions :
            IsRelative(stream[i].dest)
                => Emitted(i) = normalize_path(ExtensionFixed(stream[i].dest))

\* C13, amended: in standalone mode the destination emitted for a relative
\* link is the link as it was written, its `.` and `..` segments unresolved,
\* with its extension fixed to .html.
C13_StandaloneNormalized ==
    path = None =>
        \A i \in LinkPositions :
            IsRelative(stream[i].dest) => Emitted(i) = ExtensionFixed(stream[i].dest)

\* the link a/../b.md in standalone mode
C13_Witness ==
    /\ path = None
    /\ \E i \in LinkPositions :
          /\ stream[i].dest = <<"a","/",".",".","/","b",".","m","d">>
          /\ Emitted(i) = <<"a","/",".",".","/","b",".","h","t","m","l">>

-----------------------------------------------------------------------------
(* Claims about the structural post-processors.                            *)

TableWrapper == Event("Html", "div.table-wrapper", <<>>)
TableCloser == Event("Html", "/div", <<>>)

\* in a sequence of events every table start follows the wrapper and every
\* table end is followed by the closing element
Wrapped(events) ==
    \A k \in 1..Len(events) :
        /\ IsTableStart(events[k]) => k > 1 /\ events[k - 1] = TableWrapper
        /\ IsTableEnd(events[k]) => k < Len(events) /\ events[k + 1] = TableCloser

\* the event at i of the stream came inside a footnote definition
InsideDef(i) ==
    \E d \in 1..(i - 1) :
        IsDefStart(stream[d]) /\ (DefEndOf(d) = 0 \/ DefEndOf(d) > i)

\* what the events from i on, outside the definitions, became
RECURSIVE MainBody(_)
MainBody(i) ==
    IF i > Len(piped) THEN <<>>
    ELSE (IF InsideDef(i) THEN <<>> ELSE piped[i]) \o MainBody(i + 1)

\* C14: every table start is immediately preceded by the wrapper HTML event and
\* every table end immediately followed by the closing HTML event, every other
\* event passes once and in its original relative order, in the main body and
\* inside footnote definition bodies.
C14_TablesWrapped ==
    /\ \A i \in 1..Len(piped) :
           /\ IsTableStart(stream[i]) => piped[i] = <<TableWrapper, stream[i]>>
           /\ IsTableEnd(stream[i]) => piped[i] = <<stream[i], TableCloser>>
           /\ stream[i].ev = "Text" \/ stream[i] = End("Paragraph")
                  => piped[i] = <<stream[i]>>
    /\ Wrapped(body)
    /\ Wrapped(in_footnote)
    /\ \A key \in DOMAIN footnote_defs : Wrapped(footnote_defs[key])
    /\ SubSeq(body, 1, Len(MainBody(1))) = MainBody(1)
    /\ pc = "events" => body = MainBody(1)
    /\ \A d \in 1..Len(stream) :
           IsDefStart(stream[d]) /\ DefEndOf(d) = 0
               => in_footnote = Concat([j \in 1..(Len(stream) - d) |-> piped[d + j]])

\* a table inside a footnote definition that was rendered, after a text of the
\* main body
C14_Witness ==
    /\ pc = "done"
    /\ \E i \in Fragments("li") : \E k \in (i + 2)..(ItemEnd(i) - 2) :
          /\ IsTableStart(body[k])
          /\ body[k - 1] = TableWrapper
    /\ body[1].ev = "Text"

-----------------------------------------------------------------------------
(* Claims about the render call as a whole.                                *)

\* C15: for every event stream, every redirect table and every page path that
\* is absent or a non-empty relative path, the render call completes: no link
\* destination and no redirect entry makes it panic.
C15_NoPanic == pc # "panicked"

\* the definition starts that arrived while another definition was open
NestedStarts ==
    {i \in 1..Len(stream) :
        IsDefStart(stream[i]) /\ definitions_open(SubSeq(stream, 1, i - 1)) > 0}

\* C16: the nested-definition diagnostic is logged for every definition start
\* that arrives while another definition is open, buffered body events or
\* not, and for no other event.
C16_NestedStartLogged ==
    Cardinality({i \in 1..Len(warnings) : warnings[i].kind = "nested"})
        = Cardinality(NestedStarts)

-----------------------------------------------------------------------------
(* Claims that relate the render calls of several pages.                   *)

\* the links rendered so far, in the calls that returned and in this one:
\* the page, the destination written and the destination emitted
LinksOf(page, events, made) ==
    {[page |-> page, dest |-> events[i].dest, emitted |-> made[i][1].dest] :
        i \in {j \in 1..Len(made) :
                  /\ events[j].ev = "Start" /\ events[j].tag = "Link"
                  /\ Len(made[j]) = 1}}

RenderedLinks ==
    LinksOf(path, stream, piped)
    \cup UNION {LinksOf(returned[k].path, returned[k].stream, returned[k].piped) :
                   k \in 1..Len(returned)}

\* the page and fragment that a link written on `page` points to
PointsTo(page, dest) == normalize_path(add_base(page) \o dest)

\* C17: in print mode with an empty redirect table, the link #f written on page
\* P and a link to P.md#f written on another page are rewritten to the same
\* destination, for every fragment f.
C17_SameAnchorFromAnyPage ==
    \A own, cross \in RenderedLinks :
        /\ starts_with(own.dest, <<"#">>)
        /\ cross.page # own.page
        /\ ~starts_with(cross.dest, <<"#">>)
        /\ PointsTo(cross.page, cross.dest) = own.page \o own.dest
        => cross.emitted = own.emitted

\* C18: in print mode the destination produced for a link is determined by the
\* link, the current page path and the contents of the redirect table: the
\* same link on the same page gets the same destination in every call,
\* whatever the traversal order of the table, also when more than one entry
\* matches the link.
C18_TraversalOrderIrrelevant ==
    \A one, other \in RenderedLinks :
        one.page = other.page /\ one.dest = other.dest
            => one.emitted = other.emitted

====
